---------------------------- MODULE Spec2Model ----------------------------
(***************************************************************************)
(* A model of muchjson (src/main.ts): value generators, the template       *)
(* flattener, the record Generator, the ValueTracker, executionOrder and   *)
(* the driver main().                                                      *)
(*                                                                         *)
(* JavaScript values are records tagged by "type".  A JavaScript string is *)
(* a sequence of tokens; the token "." is the path separator, so that      *)
(* building a dotted path (prev + "." + key) and taking it apart again     *)
(* (lodash set/get) are two different computations.                        *)
(***************************************************************************)
EXTENDS Integers, Sequences, FiniteSets, TLC

(***************************************************************************)
(* Bounds of the model.                                                    *)
(***************************************************************************)
\* the largest <iterations> a template file name carries
MaxIter == 2
\* Math.random() ranges over k / RandRes, k in 0 .. RandRes-1
RandRes == 2
\* the number of files of the directory a file generator lists
NumFiles == 3
\* the number of generate() calls made on one file generator
MaxFileCalls == 5
\* the largest min and max of a {min, max} range
MaxRange == 3
\* the most records one template's Generator is asked for
MaxRecords == 3
\* generate() calls on one value generator
MaxKindCalls == 2
\* track and add calls on one ValueTracker
MaxTrackerCalls == 4

(***************************************************************************)
(* JavaScript values.                                                      *)
(***************************************************************************)
Undefined == [type |-> "undefined"]
Null == [type |-> "null"]
Str(s) == [type |-> "string", str |-> s]
Num(n) == [type |-> "number", num |-> n]
Bool(b) == [type |-> "boolean", bool |-> b]
\* an array: its elements and the properties set on it under other keys
Arr(items) == [type |-> "array", items |-> items, props |-> << >>]
\* an object keeps its keys in insertion order
Obj(entries) == [type |-> "object", entries |-> entries]
KV(key, value) == [k |-> key, v |-> value]
EmptyString == Str(<< >>)
\* the result of arithmetic on what is no number
NaN == [type |-> "NaN"]
\* the outcome of a call that throws a TypeError
TypeError == [type |-> "TypeError"]

\* the truthiness that ||, ?: and if (...) test
Truthy(v) ==
    CASE v.type = "undefined" -> FALSE
      [] v.type = "null" -> FALSE
      [] v.type = "string" -> v.str # << >>
      [] v.type = "number" -> v.num # 0
      [] v.type = "boolean" -> v.bool
      [] v.type = "NaN" -> FALSE
      [] OTHER -> TRUE

\* a || b
Or(a, b) == IF Truthy(a) THEN a ELSE b

HasKey(o, key) ==
    /\ o.type = "object"
    /\ \E i \in 1..Len(o.entries) : o.entries[i].k = key

KeyIndex(o, key) == CHOOSE i \in 1..Len(o.entries) : o.entries[i].k = key

\* o?.key for a key that is no property of strings, numbers and arrays
Get(o, key) == IF HasKey(o, key) THEN o.entries[KeyIndex(o, key)].v ELSE Undefined

\* o[key] = value: an existing key keeps its place, a new key goes last
SetKey(o, key, value) ==
    IF HasKey(o, key)
    THEN Obj([o.entries EXCEPT ![KeyIndex(o, key)] = KV(key, value)])
    ELSE Obj(Append(o.entries, KV(key, value)))

\* Object.keys(o) of a plain object
ObjectKeys(o) ==
    IF o.type = "object" THEN [i \in 1..Len(o.entries) |-> o.entries[i].k] ELSE << >>

LowerToken(t) ==
    CASE t = "REF" -> "ref"
      [] t = "Ref" -> "ref"
      [] t = "REFERENCE" -> "reference"
      [] t = "Reference" -> "reference"
      [] t = "ENUM" -> "enum"
      [] t = "Enum" -> "enum"
      [] t = "FILE" -> "file"
      [] t = "File" -> "file"
      [] t = "JOIN" -> "join"
      [] t = "Join" -> "join"
      [] t = "Name" -> "name"
      [] t = "Id" -> "id"
      [] t = "ID" -> "id"
      [] t = "Copy" -> "copy"
      [] t = "COPY" -> "copy"
      [] t = "CSV" -> "csv"
      [] t = "JavaScript" -> "javascript"
      [] t = "eNuM" -> "enum"
      [] OTHER -> t

\* name?.toLowerCase(): undefined for undefined and null, a TypeError for
\* any other value that is no string (it has no toLowerCase method)
ToLowerCase(v) ==
    CASE v.type = "string" -> Str([i \in 1..Len(v.str) |-> LowerToken(v.str[i])])
      [] v.type \in {"undefined", "null"} -> Undefined
      [] OTHER -> TypeError

(***************************************************************************)
(* Map<K, V> as a function on the set of its keys.                         *)
(***************************************************************************)
EmptyMap == << >>
MapHas(m, key) == key \in DOMAIN m
MapGet(m, key) == IF key \in DOMAIN m THEN m[key] ELSE Undefined
MapSet(m, key, value) ==
    [x \in (DOMAIN m) \cup {key} |-> IF x = key THEN value ELSE m[x]]

(***************************************************************************)
(* Math.random() and Math.floor(Math.random() * n).                        *)
(***************************************************************************)
Draws == 0..(RandRes - 1)
\* Math.floor(Math.random() * n) where Math.random() = r / RandRes
FloorRandomTimes(r, n) == (r * n) \div RandRes


\* the i-th Math.random() call of a run of draws yields rnd.seq[rnd.pos]
Rnd(seq) == [seq |-> seq, pos |-> 1]
RandomValue(rnd) == rnd.seq[rnd.pos]
RandomNext(rnd) == [rnd EXCEPT !.pos = (rnd.pos % Len(rnd.seq)) + 1]

(***************************************************************************)
(* String(v), as string concatenation and Array.prototype.join apply it.   *)
(***************************************************************************)
RECURSIVE ToStr(_)
RECURSIVE JoinFrom(_, _, _)
\* the elements i.. of items joined by sep; null and undefined join as ""
JoinFrom(items, sep, i) ==
    IF i > Len(items) THEN << >>
    ELSE LET e == items[i]
             s == IF e.type \in {"undefined", "null"} THEN << >> ELSE ToStr(e)
         IN  IF i = Len(items) THEN s ELSE s \o sep \o JoinFrom(items, sep, i + 1)

ToStr(v) ==
    CASE v.type = "undefined" -> <<"undefined">>
      [] v.type = "null" -> <<"null">>
      [] v.type = "string" -> v.str
      [] v.type = "number" -> <<ToString(v.num)>>
      [] v.type = "boolean" -> IF v.bool THEN <<"true">> ELSE <<"false">>
      [] v.type = "NaN" -> <<"NaN">>
      [] v.type = "array" -> JoinFrom(v.items, <<",">>, 1)
      [] OTHER -> <<"[object Object]">>

\* lodash join(array, separator)
join(elements, separator) == Str(JoinFrom(elements, ToStr(separator), 1))

\* a + b where one operand is a string
Concat(a, b) == Str(ToStr(a) \o ToStr(b))

\* Number(v) of undefined, null, a boolean or a number
ToNumber(v) ==
    CASE v.type = "number" -> v
      [] v.type = "null" -> Num(0)
      [] v.type = "boolean" -> IF v.bool THEN Num(1) ELSE Num(0)
      [] OTHER -> NaN

\* a + b: concatenation when an operand is a string, an array or an object,
\* addition of numbers otherwise; no value when an operand was never made
Plus(a, b) ==
    IF a = TypeError \/ b = TypeError THEN TypeError
    ELSE IF {a.type, b.type} \cap {"string", "array", "object"} # {}
    THEN Concat(a, b)
    ELSE IF ToNumber(a) = NaN \/ ToNumber(b) = NaN THEN NaN
    ELSE Num(ToNumber(a).num + ToNumber(b).num)

(***************************************************************************)
(* lodash set(object, path, value) and get(object, path) for a string     *)
(* path: a path that is a key of the object or holds no "." is one key,    *)
(* any other is split at each ".".  set creates what is missing on the     *)
(* way: an array where the next key is an index, an object otherwise.      *)
(***************************************************************************)
RECURSIVE stringToPath(_)
stringToPath(s) ==
    IF \A i \in 1..Len(s) : s[i] # "." THEN <<s>>
    ELSE LET d == CHOOSE i \in 1..Len(s) :
                      s[i] = "." /\ \A j \in 1..(i - 1) : s[j] # "."
         IN  <<SubSeq(s, 1, d - 1)>> \o stringToPath(SubSeq(s, d + 1, Len(s)))

castPath(path, object) == IF HasKey(object, path) THEN <<path>> ELSE stringToPath(path)

\* isIndex(key) and the index it is
IsIndex(key) == key \in {<<"0">>, <<"1">>, <<"2">>}
IndexOf(key) == CASE key = <<"0">> -> 0 [] key = <<"1">> -> 1 [] key = <<"2">> -> 2

\* isObject(value)
IsObject(value) == value.type \in {"object", "array"}

\* object[key] of an object or an array; strings are not looked into
GetProp(object, key) ==
    CASE object.type = "object" -> Get(object, key)
      [] object.type = "array" ->
             IF IsIndex(key)
             THEN IF IndexOf(key) < Len(object.items)
                  THEN object.items[IndexOf(key) + 1] ELSE Undefined
             ELSE Get(Obj(object.props), key)
      [] OTHER -> Undefined

\* object[key] = value of an object or an array (holes read as undefined)
SetProp(object, key, value) ==
    IF object.type = "object" THEN SetKey(object, key, value)
    ELSE IF IsIndex(key)
    THEN [object EXCEPT !.items =
             [i \in 1..(IF IndexOf(key) < Len(object.items)
                        THEN Len(object.items) ELSE IndexOf(key) + 1) |->
                 IF i = IndexOf(key) + 1 THEN value
                 ELSE IF i <= Len(object.items) THEN object.items[i]
                 ELSE Undefined]]
    ELSE [object EXCEPT !.props = SetKey(Obj(object.props), key, value).entries]

RECURSIVE baseSet(_, _, _, _)
baseSet(object, path, i, value) ==
    IF i = Len(path) THEN SetProp(object, path[i], value)
    ELSE LET objValue == GetProp(object, path[i])
             nested == IF IsObject(objValue) THEN objValue
                       ELSE IF IsIndex(path[i + 1]) THEN Arr(<< >>)
                       ELSE Obj(<< >>)
         IN  SetProp(object, path[i], baseSet(nested, path, i + 1, value))

set(object, path, value) == baseSet(object, castPath(path, object), 1, value)

RECURSIVE baseGet(_, _, _)
baseGet(object, path, i) ==
    IF i > Len(path) THEN object
    ELSE IF object.type \in {"undefined", "null"} THEN Undefined
    ELSE baseGet(GetProp(object, path[i]), path, i + 1)

\* get(object, path): a path that is no string is one key
get(object, path) ==
    IF path.type = "string" THEN baseGet(object, castPath(path.str, object), 1)
    ELSE GetProp(object, ToStr(path))

(***************************************************************************)
(* class ValueTracker: values is a Map from a property path to the list of *)
(* values added for it.                                                    *)
(***************************************************************************)
NewValueTracker == EmptyMap

\* a track that starts the list of the property anew
trackAnew(values, property) == MapSet(values, property, << >>)

track(values, property) ==
    IF MapHas(values, property) THEN values ELSE MapSet(values, property, << >>)

tracks(values, property) == MapHas(values, property)

\* an add that puts the value in front of the list
addFront(values, property, value) ==
    IF MapHas(values, property)
    THEN MapSet(values, property, <<value>> \o values[property])
    ELSE MapSet(values, property, <<value>>)

add(values, property, value) ==
    IF MapHas(values, property)
    THEN MapSet(values, property, Append(values[property], value))
    ELSE MapSet(values, property, <<value>>)

\* ValueTracker.get: the array of the property, or undefined
TrackerGet(values, property) ==
    IF MapHas(values, property) THEN Arr(values[property]) ELSE Undefined

\* valueTrackers.get(name)?.get(property) is an array (TRUE) or undefined
HasValues(valueTrackers, name, property) ==
    /\ MapHas(valueTrackers, name)
    /\ MapHas(valueTrackers[name], property)

(***************************************************************************)
(* function randomBetween({min, max}) with Math.random() = r / RandRes:    *)
(* Math.floor((min || 0) + Math.random() * (max || 0)).                    *)
(***************************************************************************)
NumOrZero(v) == IF v.type = "number" /\ v.num # 0 THEN v.num ELSE 0

randomBetween(range, r) ==
    LET min == NumOrZero(Get(range, <<"min">>))
        max == NumOrZero(Get(range, <<"max">>))
    IN  (min * RandRes + r * max) \div RandRes

(***************************************************************************)
(* function createValueGenerator(name, options, valueTrackers).  A value   *)
(* generator instance is a record: its kind (the class the switch picks),  *)
(* its options and the instance's own state.  world is what the instance   *)
(* reads from outside the program: world.entries is the directory listing *)
(* Deno.readDirSync gives, world.files maps a file name to its text and    *)
(* world.shuffle is the permutation that shuffle(names) applies.           *)
(***************************************************************************)
GeneratorKind(name) ==
    LET n == ToLowerCase(name)
    IN  CASE n = TypeError -> "TypeError"
          [] n = Str(<<"name">>) -> "name"
          [] n = Str(<<"id">>) -> "id"
          [] n = Str(<<"enum">>) -> "enum"
          [] n = Str(<<"file">>) -> "file"
          [] n = Str(<<"reference">>) -> "reference"
          [] n = Str(<<"ref">>) -> "reference"
          [] n = Str(<<"join">>) -> "join"
          [] n = Str(<<"copy">>) -> "copy"
          [] n = Str(<<"csv">>) -> "csv"
          [] n = Str(<<"javascript">>) -> "javascript"
          [] OTHER -> "default"

RECURSIVE FileNamesFrom(_, _, _)
\* the names loop of FileValueGenerator's constructor from the i-th entry on
FileNamesFrom(options, entries, i) ==
    IF i > Len(entries) THEN << >>
    ELSE IF entries[i].isFile
    THEN <<Concat(Concat(Get(options, <<"directory">>), Str(<<"/">>)),
                  Str(entries[i].name))>>
         \o FileNamesFrom(options, entries, i + 1)
    ELSE FileNamesFrom(options, entries, i + 1)

\* shuffle(names) under the permutation the world draws
shuffle(names, permutation) ==
    [i \in 1..Len(names) |-> names[permutation[i]]]

RECURSIVE createValueGenerator(_, _, _)
createValueGenerator(name, options, world) ==
    LET kind == GeneratorKind(name)
    IN  CASE kind = "TypeError" -> TypeError
          [] kind = "file" ->
               [kind |-> kind, options |-> options,
                filenames |-> shuffle(FileNamesFrom(options, world.entries, 1),
                                      world.shuffle)]
          [] kind = "join" ->
               [kind |-> kind, options |-> options,
                elementValueGenerator |->
                    createValueGenerator(Get(Get(options, <<"element">>), <<"generator">>),
                                         Get(options, <<"element">>), world)]
          [] OTHER -> [kind |-> kind, options |-> options]

(***************************************************************************)
(* The generate() methods.  Each returns the value, the instance after the *)
(* call and the random draws after the call.                               *)
(***************************************************************************)
Result(value, inst, rnd) == [value |-> value, inst |-> inst, rnd |-> rnd]

\* array[Math.floor(Math.random() * array.length)]
RandomElementOf(items, r) ==
    LET i == FloorRandomTimes(r, Len(items)) + 1
    IN  IF i \in 1..Len(items) THEN items[i] ELSE Undefined

\* DefaultValueGenerator.generate
DefaultGenerate(inst, rnd) == Result(inst.options, inst, rnd)

\* EnumValueGenerator.generate indexing one past Math.floor(...)
EnumGenerateNext(inst, rnd) ==
    LET options == Get(inst.options, <<"options">>).items
        i == FloorRandomTimes(RandomValue(rnd), Len(options)) + 2
    IN  Result(IF i \in 1..Len(options) THEN options[i] ELSE Undefined,
               inst, RandomNext(rnd))

\* EnumValueGenerator.generate
EnumGenerate(inst, rnd) ==
    Result(RandomElementOf(Get(inst.options, <<"options">>).items, RandomValue(rnd)),
           inst, RandomNext(rnd))

\* options.otherGenerator || options.other
ReferenceProducer(options) ==
    Or(Get(options, <<"otherGenerator">>), Get(options, <<"other">>))

\* ReferenceValueGenerator.generate with Math.round in place of Math.floor
ReferenceGenerateRound(inst, valueTrackers, rnd) ==
    LET other == ReferenceProducer(inst.options)
        property == Get(inst.options, <<"property">>)
    IN  IF HasValues(valueTrackers, other, property)
        THEN LET values == valueTrackers[other][property]
                 i == ((2 * RandomValue(rnd) * Len(values) + RandRes)
                          \div (2 * RandRes)) + 1
             IN  Result(IF i \in 1..Len(values) THEN values[i] ELSE Undefined,
                        inst, RandomNext(rnd))
        ELSE Result(Null, inst, rnd)

\* the valueTrackers of a generator that was constructed without them
NoValueTrackers == [n \in {Undefined} |-> Undefined]

\* ReferenceValueGenerator.generate
ReferenceGenerate(inst, valueTrackers, rnd) ==
    LET other == ReferenceProducer(inst.options)
        property == Get(inst.options, <<"property">>)
    IN  IF valueTrackers = NoValueTrackers THEN Result(TypeError, inst, rnd)
        ELSE IF HasValues(valueTrackers, other, property)
        THEN Result(RandomElementOf(valueTrackers[other][property], RandomValue(rnd)),
                    inst, RandomNext(rnd))
        ELSE Result(Null, inst, rnd)

\* FileValueGenerator.read
read(file, world) ==
    IF ~Truthy(file) THEN EmptyString ELSE world.files[file]

\* FileValueGenerator.generate reading the last file name without pop()
FileGenerateKeep(inst, world, rnd) ==
    LET n == Len(inst.filenames)
    IN  IF n = 0 THEN Result(Null, inst, rnd)
        ELSE IF Truthy(Get(inst.options, <<"unique">>))
        THEN Result(read(inst.filenames[n], world), inst, rnd)
        ELSE Result(read(RandomElementOf(inst.filenames, RandomValue(rnd)), world),
                    inst, RandomNext(rnd))

\* FileValueGenerator.generate
FileGenerate(inst, world, rnd) ==
    LET n == Len(inst.filenames)
    IN  IF n = 0 THEN Result(Null, inst, rnd)
        ELSE IF Truthy(Get(inst.options, <<"unique">>))
        THEN Result(read(inst.filenames[n], world),
                    [inst EXCEPT !.filenames = SubSeq(inst.filenames, 1, n - 1)],
                    rnd)
        ELSE Result(read(RandomElementOf(inst.filenames, RandomValue(rnd)), world),
                    inst, RandomNext(rnd))

DefaultCount == Obj(<<KV(<<"min">>, Num(1)), KV(<<"max">>, Num(10))>>)

RECURSIVE generate(_, _, _, _, _)
RECURSIVE JoinElements(_, _, _, _, _, _, _)
\* the for loop of JoinValueGenerator.generate: count more elements
JoinElements(element, count, elements, current, valueTrackers, world, rnd) ==
    IF count <= 0
    THEN [elements |-> elements, element |-> element, rnd |-> rnd]
    ELSE LET g == generate(element, current, valueTrackers, world, rnd)
         IN  JoinElements(g.inst, count - 1, Append(elements, g.value),
                          current, valueTrackers, world, g.rnd)

\* function maybeGenerate: the value and the draws after the call
maybeGenerate(options, valueTrackers, output, world, rnd) ==
    IF options.type = "string" THEN [value |-> options, rnd |-> rnd]
    ELSE LET g == generate(createValueGenerator(Get(options, <<"generator">>),
                                                 options, world),
                           output, valueTrackers, world, rnd)
         IN  [value |-> Or(g.value, EmptyString), rnd |-> g.rnd]

\* JoinValueGenerator.generate with an element generator that every call
\* starts anew
JoinGenerateFresh(inst, output, valueTrackers, world, rnd) ==
    LET count == randomBetween(Or(Get(inst.options, <<"count">>), DefaultCount),
                               RandomValue(rnd))
        e == JoinElements(inst.elementValueGenerator, count, << >>, output,
                          valueTrackers, world, RandomNext(rnd))
        prefix == maybeGenerate(Get(inst.options, <<"prefix">>), valueTrackers,
                                output, world, e.rnd)
        suffix == maybeGenerate(Get(inst.options, <<"suffix">>), valueTrackers,
                                output, world, prefix.rnd)
        joined == join(e.elements, Or(Get(inst.options, <<"separator">>), EmptyString))
    IN  Result(Plus(Plus(prefix.value, joined), suffix.value), inst, suffix.rnd)

\* JoinValueGenerator.generate
JoinGenerate(inst, output, valueTrackers, world, rnd) ==
    LET count == randomBetween(Or(Get(inst.options, <<"count">>), DefaultCount),
                               RandomValue(rnd))
        e == JoinElements(inst.elementValueGenerator, count, << >>, output,
                          valueTrackers, world, RandomNext(rnd))
        prefix == maybeGenerate(Get(inst.options, <<"prefix">>), valueTrackers,
                                output, world, e.rnd)
        suffix == maybeGenerate(Get(inst.options, <<"suffix">>), valueTrackers,
                                output, world, prefix.rnd)
        joined == join(e.elements, Or(Get(inst.options, <<"separator">>), EmptyString))
    IN  Result(Plus(Plus(prefix.value, joined), suffix.value),
               [inst EXCEPT !.elementValueGenerator = e.element],
               suffix.rnd)

\* CopyValueGenerator.generate; createValueGenerator constructs the instance
\* from options alone, so its valueTrackers are undefined
CopyGenerate(inst, current, world, rnd) ==
    LET prefix == maybeGenerate(Get(inst.options, <<"prefix">>), NoValueTrackers,
                                current, world, rnd)
        suffix == maybeGenerate(Get(inst.options, <<"suffix">>), NoValueTrackers,
                                current, world, prefix.rnd)
    IN  Result(Plus(Plus(prefix.value, get(current, Get(inst.options, <<"from">>))),
                    suffix.value),
               inst, suffix.rnd)

\* IValueGenerator.generate(current), by the class of the instance
generate(inst, current, valueTrackers, world, rnd) ==
    CASE inst.kind = "default" -> DefaultGenerate(inst, rnd)
      [] inst.kind = "enum" -> EnumGenerate(inst, rnd)
      [] inst.kind = "file" -> FileGenerate(inst, world, rnd)
      [] inst.kind = "reference" -> ReferenceGenerate(inst, valueTrackers, rnd)
      [] inst.kind = "join" -> JoinGenerate(inst, current, valueTrackers, world, rnd)
      [] inst.kind = "copy" -> CopyGenerate(inst, current, world, rnd)

(***************************************************************************)
(* function flatten(target): the object of the leaves of target, each      *)
(* under its dotted path, in the order step meets them.                    *)
(***************************************************************************)
RECURSIVE step(_, _, _, _)
\* the forEach of step(object, prev) from the i-th key of object on
step(output, object, prev, i) ==
    IF i > Len(object.entries) THEN output
    ELSE LET key == object.entries[i].k
             value == object.entries[i].v
             newKey == IF Truthy(prev) THEN prev.str \o <<".">> \o key ELSE key
         IN  IF Truthy(Get(value, <<"generator">>))
             THEN step(SetKey(output, newKey, value), object, prev, i + 1)
             ELSE IF value.type = "object" /\ Len(value.entries) > 0
             THEN step(step(output, value, Str(newKey), 1), object, prev, i + 1)
             ELSE step(SetKey(output, newKey, value), object, prev, i + 1)

flatten(target) == step(Obj(<< >>), target, Undefined, 1)

(***************************************************************************)
(* class Generator.                                                        *)
(***************************************************************************)
IsReference(options) ==
    \/ ToLowerCase(Get(options, <<"generator">>)) = Str(<<"reference">>)
    \/ ToLowerCase(Get(options, <<"generator">>)) = Str(<<"ref">>)

RECURSIVE DependenciesDeep(_, _, _)
\* a constructor loop that also takes the reference a leaf holds as its element
DependenciesDeep(flatTemplate, i, dependencies) ==
    IF i > Len(flatTemplate.entries) THEN dependencies
    ELSE LET options == flatTemplate.entries[i].v
             element == Get(options, <<"element">>)
             own == IF IsReference(options)
                    THEN MapSet(dependencies, ReferenceProducer(options),
                                Get(options, <<"property">>))
                    ELSE dependencies
         IN  IF IsReference(element)
             THEN DependenciesDeep(flatTemplate, i + 1,
                                   MapSet(own, ReferenceProducer(element),
                                          Get(element, <<"property">>)))
             ELSE DependenciesDeep(flatTemplate, i + 1, own)

RECURSIVE Dependencies(_, _, _)
\* the dependencies Map after the constructor's loop from the i-th leaf on
Dependencies(flatTemplate, i, dependencies) ==
    IF i > Len(flatTemplate.entries) THEN dependencies
    ELSE LET options == flatTemplate.entries[i].v
         IN  IF IsReference(options)
             THEN Dependencies(flatTemplate, i + 1,
                               MapSet(dependencies, ReferenceProducer(options),
                                      Get(options, <<"property">>)))
             ELSE Dependencies(flatTemplate, i + 1, dependencies)

\* new Generator(name, iterations, template, valueTrackers)
NewGenerator(name, iterations, template, world) ==
    LET flatTemplate == flatten(template)
    IN  [name |-> name,
         iterations |-> iterations,
         flatTemplate |-> flatTemplate,
         valueGenerators |->
             [key \in {flatTemplate.entries[i].k : i \in 1..Len(flatTemplate.entries)} |->
                 createValueGenerator(Get(Get(flatTemplate, key), <<"generator">>),
                                      Get(flatTemplate, key), world)],
         dependencies |-> Dependencies(flatTemplate, 1, EmptyMap)]

RECURSIVE GenerateFrom(_, _, _, _, _, _)
\* the loop of Generator.generate from the i-th key of the flat template on;
\* a leaf whose generate() throws ends the call without a record
GenerateFrom(generator, i, output, valueTrackers, world, rnd) ==
    IF i > Len(generator.flatTemplate.entries)
    THEN [output |-> output, valueTrackers |-> valueTrackers,
          generator |-> generator, rnd |-> rnd]
    ELSE LET key == generator.flatTemplate.entries[i].k
             g == generate(generator.valueGenerators[key], output, valueTrackers,
                           world, rnd)
             tracked == /\ MapHas(valueTrackers, generator.name)
                        /\ tracks(valueTrackers[generator.name], Str(key))
             trackers == IF tracked
                         THEN MapSet(valueTrackers, generator.name,
                                     add(valueTrackers[generator.name], Str(key), g.value))
                         ELSE valueTrackers
         IN  IF g.value = TypeError
             THEN [output |-> TypeError, valueTrackers |-> valueTrackers,
                   generator |-> generator, rnd |-> g.rnd]
             ELSE GenerateFrom([generator EXCEPT !.valueGenerators[key] = g.inst],
                               i + 1, set(output, key, g.value), trackers, world,
                               g.rnd)

\* Generator.generate
GeneratorGenerate(generator, valueTrackers, world, rnd) ==
    GenerateFrom(generator, 1, Obj(<< >>), valueTrackers, world, rnd)

(***************************************************************************)
(* function executionOrder(generators): one pass of its while loop.        *)
(***************************************************************************)
\* the test of the scan with some in place of every
PlaceableSome(generator, sortedGenerators) ==
    \/ Cardinality(DOMAIN generator.dependencies) = 0
    \/ \E d \in DOMAIN generator.dependencies :
           \E j \in 1..Len(sortedGenerators) : sortedGenerators[j].name = d

\* the test of the scan: no dependencies, or every key among the sorted names
Placeable(generator, sortedGenerators) ==
    \/ Cardinality(DOMAIN generator.dependencies) = 0
    \/ \A d \in DOMAIN generator.dependencies :
           \E j \in 1..Len(sortedGenerators) : sortedGenerators[j].name = d

\* a scan that takes the first generator without testing it
FirstUntested(generators, sortedGenerators) ==
    IF Len(generators) > 0 THEN 1 ELSE 0

\* the index at which the for loop breaks, 0 when it runs to its end
FirstPlaceable(generators, sortedGenerators) ==
    IF \E i \in 1..Len(generators) : Placeable(generators[i], sortedGenerators)
    THEN CHOOSE i \in 1..Len(generators) :
             /\ Placeable(generators[i], sortedGenerators)
             /\ \A j \in 1..(i - 1) : ~Placeable(generators[j], sortedGenerators)
    ELSE 0

\* generators.splice(i, 1)
Splice(generators, i) ==
    SubSeq(generators, 1, i - 1) \o SubSeq(generators, i + 1, Len(generators))

\* a fallback that pushes the rest back to front
RemainingReversed(generators) ==
    [i \in 1..Len(generators) |-> generators[Len(generators) + 1 - i]]

\* a fallback that warns and pushes nothing
RemainingDropped(generators) == << >>

\* what the fallback pushes: sortedGenerators.push(...generators)
Remaining(generators) == generators

\* a fallback whose warning loop stops after its first pass
WarnedFirst(generators) == <<generators[1].name>>

\* the names the fallback warns about, one console.warn each
Warned(generators) == [i \in 1..Len(generators) |-> generators[i].name]

(***************************************************************************)
(* The templates a run reads.  Names are the <name> parts of the template  *)
(* files of one directory; each file is read once.                         *)
(***************************************************************************)
WalkOrder == <<Str(<<"A">>), Str(<<"B">>), Str(<<"C">>)>>
Names == {WalkOrder[i] : i \in 1..Len(WalkOrder)}

\* the pairs of names, the earlier of the walk first
NamePairs ==
    {<<WalkOrder[p[1]], WalkOrder[p[2]]>> :
        p \in {q \in (1..Len(WalkOrder)) \X (1..Len(WalkOrder)) : q[1] < q[2]}}

EnumSpec ==
    Obj(<<KV(<<"generator">>, Str(<<"enum">>)),
          KV(<<"options">>, Arr(<<Str(<<"v1">>), Str(<<"v2">>)>>))>>)

RefSpec(tag, otherKey, other, property) ==
    Obj(<<KV(<<"generator">>, Str(<<tag>>)), KV(<<otherKey>>, other),
          KV(<<"property">>, Str(<<property>>))>>)

Literal == Num(7)

\* the template documents the file called name may hold
Templates(name) ==
    {Obj(<<KV(<<"x">>, EnumSpec), KV(<<"y">>, Literal)>>)}
    \cup {Obj(<<KV(<<"x">>, EnumSpec),
                KV(<<"y">>, RefSpec("ref", "other", n, "x"))>>) : n \in Names}
    \cup {Obj(<<KV(<<"x">>, RefSpec("reference", "otherGenerator", n, "x")),
                KV(<<"y">>, RefSpec("Ref", "other", n, "y"))>>) : n \in Names}
    \cup {Obj(<<KV(<<"x">>, RefSpec("REF", "other", p[1], "x")),
                KV(<<"y">>, RefSpec("Reference", "otherGenerator", p[2], "x"))>>) :
              p \in {q \in NamePairs : q[1] # name /\ q[2] # name}}
    \cup {Obj(<<KV(<<"x">>, EnumSpec),
                KV(<<"y">>, RefSpec("ref", "other", WalkOrder[1], "z"))>>)}

\* no template of a run holds a file generator
NoFiles == [files |-> << >>, entries |-> << >>, shuffle |-> << >>]

(***************************************************************************)
(* The state of a run of main(), of one FileValueGenerator and of one      *)
(* JoinValueGenerator.                                                     *)
(***************************************************************************)
VARIABLES
    pc,                 \* where main() is: "load", "plan", "generate", "done"
    generators,         \* main's generators array, spliced by executionOrder
    sortedGenerators,   \* executionOrder's sortedGenerators
    valueTrackers,      \* main's valueTrackers Map
    warnings,           \* the names console.warn was called with, in order
    declared,           \* the generators as constructed, in declaration order
    position,           \* the index of the generator the for-of loop is at
    iteration,          \* the i of the inner for loop
    calls,              \* how many generate() calls each template name got
    last,               \* the template and the result of the last generate()
    world,              \* the directory and the shuffle a file generator sees
    fileGenerator,      \* a FileValueGenerator instance
    returned,           \* what its generate() calls returned, in order
    joinGenerator,      \* a JoinValueGenerator instance
    range,              \* the {min, max} randomBetween is called with
    drawn,              \* what the last randomBetween call returned
    joined,             \* what the last JoinValueGenerator.generate returned
    document,           \* the document of one template file
    recordGenerator,    \* the Generator constructed from it
    recordTrackers,     \* the valueTrackers Map that Generator works with
    records,            \* what its generate() calls returned, in order
    leaf,               \* a leaf spec handed to createValueGenerator
    created,            \* what createValueGenerator returned for it
    yielded,            \* what the last generate() of that instance returned
    tracker,            \* the values Map of one ValueTracker
    history             \* the track and add calls made on it, in order

mainVars ==
    <<pc, generators, sortedGenerators, valueTrackers, warnings, declared,
      position, iteration, calls, last>>
fileVars == <<world, fileGenerator, returned>>
joinVars == <<joinGenerator, range, drawn, joined>>
recordVars == <<document, recordGenerator, recordTrackers, records>>
kindVars == <<leaf, created, yielded>>
trackerVars == <<tracker, history>>
vars == <<mainVars, fileVars, joinVars, recordVars, kindVars, trackerVars>>

NoRecord == [name |-> Undefined, output |-> Undefined]

MainIdle ==
    /\ pc = "idle"
    /\ generators = << >>
    /\ sortedGenerators = << >>
    /\ valueTrackers = EmptyMap
    /\ warnings = << >>
    /\ declared = << >>
    /\ position = 0
    /\ iteration = 0
    /\ calls = [n \in Names |-> 0]
    /\ last = NoRecord

FileIdle ==
    /\ world = NoFiles
    /\ fileGenerator = Undefined
    /\ returned = << >>

JoinIdle ==
    /\ joinGenerator = Undefined
    /\ range = Undefined
    /\ drawn = Undefined
    /\ joined = Undefined

RecordIdle ==
    /\ document = Undefined
    /\ recordGenerator = Undefined
    /\ recordTrackers = EmptyMap
    /\ records = << >>

KindIdle ==
    /\ leaf = Undefined
    /\ created = Undefined
    /\ yielded = << >>

TrackerIdle ==
    /\ tracker = NewValueTracker
    /\ history = << >>

(***************************************************************************)
(* async function main(dir).                                               *)
(***************************************************************************)
Init ==
    /\ pc = "load"
    /\ generators = << >>
    /\ sortedGenerators = << >>
    /\ valueTrackers = EmptyMap
    /\ warnings = << >>
    /\ declared = << >>
    /\ position = 0
    /\ iteration = 0
    /\ calls = [n \in Names |-> 0]
    /\ last = NoRecord
    /\ FileIdle
    /\ JoinIdle
    /\ RecordIdle
    /\ KindIdle
    /\ TrackerIdle

DeclaredNames == {declared[i].name : i \in 1..Len(declared)}

\* "Tell valueTrackers to track the all my dependencies"
TrackDependencies(trackers, dependencies) ==
    [n \in (DOMAIN trackers) \cup (DOMAIN dependencies) |->
        IF n \in DOMAIN dependencies
        THEN track(IF MapHas(trackers, n) THEN trackers[n] ELSE NewValueTracker,
                   dependencies[n])
        ELSE trackers[n]]

\* one pass of the walk loop: a template file becomes a Generator
Load ==
    /\ pc = "load"
    /\ Len(declared) < Len(WalkOrder)
    /\ \E iterations \in {1, MaxIter},
          template \in Templates(WalkOrder[Len(declared) + 1]) :
          LET name == WalkOrder[Len(declared) + 1]
              generator == NewGenerator(name, iterations, template, NoFiles)
          IN  /\ generators' = Append(generators, generator)
              /\ declared' = Append(declared, generator)
              /\ valueTrackers' = TrackDependencies(valueTrackers,
                                                    generator.dependencies)
    /\ UNCHANGED <<pc, sortedGenerators, warnings, position, iteration, calls, last>>
    /\ UNCHANGED <<fileVars, joinVars, recordVars, kindVars, trackerVars>>

\* the walk has ended: executionOrder(generators) is called
ExecutionOrderCall ==
    /\ pc = "load"
    /\ pc' = "plan"
    /\ sortedGenerators' = << >>
    /\ UNCHANGED <<generators, valueTrackers, warnings, declared, position,
                   iteration, calls, last>>
    /\ UNCHANGED <<fileVars, joinVars, recordVars, kindVars, trackerVars>>

\* a pass of the while loop whose scan finds a generator to move
ExecutionOrderPlace ==
    /\ pc = "plan"
    /\ Len(generators) > 0
    /\ FirstPlaceable(generators, sortedGenerators) # 0
    /\ LET i == FirstPlaceable(generators, sortedGenerators)
       IN  /\ sortedGenerators' = Append(sortedGenerators, generators[i])
           /\ generators' = Splice(generators, i)
    /\ UNCHANGED <<pc, valueTrackers, warnings, declared, position, iteration,
                   calls, last>>
    /\ UNCHANGED <<fileVars, joinVars, recordVars, kindVars, trackerVars>>

\* a pass whose scan finds none: push the rest, warn about each, break, return
ExecutionOrderFallback ==
    /\ pc = "plan"
    /\ Len(generators) > 0
    /\ FirstPlaceable(generators, sortedGenerators) = 0
    /\ sortedGenerators' = sortedGenerators \o Remaining(generators)
    /\ warnings' = warnings \o Warned(generators)
    /\ pc' = IF Len(sortedGenerators') = 0 THEN "done" ELSE "generate"
    /\ position' = 1
    /\ iteration' = 0
    /\ UNCHANGED <<generators, valueTrackers, declared, calls, last>>
    /\ UNCHANGED <<fileVars, joinVars, recordVars, kindVars, trackerVars>>

\* the while loop ends with generators empty: return; with nothing to
\* generate the for-of loop ends at once
ExecutionOrderReturn ==
    /\ pc = "plan"
    /\ Len(generators) = 0
    /\ pc' = IF Len(sortedGenerators) = 0 THEN "done" ELSE "generate"
    /\ position' = 1
    /\ iteration' = 0
    /\ UNCHANGED <<generators, sortedGenerators, valueTrackers, warnings,
                   declared, calls, last>>
    /\ UNCHANGED <<fileVars, joinVars, recordVars, kindVars, trackerVars>>

\* the for-of loop has a generator and its inner loop's test i < iterations
\* passes
InnerLoopRuns ==
    /\ pc = "generate"
    /\ position <= Len(sortedGenerators)
    /\ iteration < sortedGenerators[position].iterations

\* one pass of the inner for loop: generator.generate() and the write; when
\* it was the generator's last pass the for-of loop goes on to the next
\* generator, and when there is none main() is done
Generate ==
    /\ InnerLoopRuns
    /\ LET generator == sortedGenerators[position]
       IN  /\ \E seq \in [1..Len(generator.flatTemplate.entries) -> Draws] :
                  \E g \in {GeneratorGenerate(generator, valueTrackers, NoFiles,
                                              Rnd(seq))} :
                      /\ sortedGenerators' =
                             [sortedGenerators EXCEPT ![position] = g.generator]
                      /\ valueTrackers' = g.valueTrackers
                      /\ last' = [name |-> generator.name, output |-> g.output]
           /\ calls' = [calls EXCEPT ![generator.name] = @ + 1]
           /\ IF iteration + 1 < generator.iterations
              THEN /\ iteration' = iteration + 1
                   /\ UNCHANGED <<pc, position>>
              ELSE /\ iteration' = 0
                   /\ position' = position + 1
                   /\ pc' = IF position < Len(sortedGenerators)
                            THEN "generate" ELSE "done"
    /\ UNCHANGED <<generators, warnings, declared>>
    /\ UNCHANGED <<fileVars, joinVars, recordVars, kindVars, trackerVars>>

Next ==
    \/ Load
    \/ ExecutionOrderCall
    \/ ExecutionOrderPlace
    \/ ExecutionOrderFallback
    \/ ExecutionOrderReturn
    \/ Generate

Spec == Init /\ [][Next]_vars

(***************************************************************************)
(* A template with one file leaf: the directory it lists, the constructor  *)
(* of its Generator and the generate() calls of its records.               *)
(***************************************************************************)
Directory == Str(<<"d">>)
FileLeaf == <<"f">>
FileName(i) == <<"file", ToString(i)>>
FilePath(i) == Concat(Concat(Directory, Str(<<"/">>)), Str(FileName(i)))

\* what the i-th file of a directory holds: texts that all differ, one text
\* in every file, or a first file that is empty
FileText(texts, i) ==
    CASE texts = "distinct" -> Str(<<"text", ToString(i)>>)
      [] texts = "same" -> Str(<<"text">>)
      [] texts = "empty" -> IF i = 1 THEN EmptyString ELSE Str(<<"text", ToString(i)>>)

\* Deno.readDirSync(directory) and Deno.readTextFileSync(file) for a
\* directory of n files, with a subdirectory listed first or not
Listing(n, texts, subdirectory) ==
    [files |-> [file \in {FilePath(i) : i \in 1..n} |->
                   FileText(texts, CHOOSE i \in 1..n : FilePath(i) = file)],
     entries |-> (IF subdirectory
                  THEN <<[name |-> <<"sub">>, isFile |-> FALSE]>> ELSE << >>)
                 \o [i \in 1..n |-> [name |-> FileName(i), isFile |-> TRUE]],
     shuffle |-> << >>]

\* the orders shuffle can put n names in
Shuffles(n) ==
    {p \in [1..n -> 1..n] : \A i, j \in 1..n : p[i] = p[j] => i = j}

FileOptions(unique) ==
    Obj(<<KV(<<"generator">>, Str(<<"File">>)),
          KV(<<"directory">>, Directory),
          KV(<<"unique">>, unique)>>)
FileTemplate(unique) == Obj(<<KV(FileLeaf, FileOptions(unique))>>)
\* the names the constructor's loop collects, before the shuffle
ListedFiles == FileNamesFrom(FileOptions(Undefined), world.entries, 1)

FileInit ==
    /\ MainIdle
    /\ JoinIdle
    /\ RecordIdle
    /\ KindIdle
    /\ TrackerIdle
    /\ \E n \in 0..NumFiles, texts \in {"distinct", "same", "empty"},
          subdirectory \in BOOLEAN :
          world = Listing(n, texts, subdirectory)
    /\ fileGenerator = Undefined
    /\ returned = << >>

\* new Generator(...) of the template: the FileValueGenerator's constructor
\* lists the directory and shuffles the names
FileConstruct ==
    /\ fileGenerator = Undefined
    /\ \E unique \in {Bool(TRUE), Bool(FALSE), Undefined},
          permutation \in Shuffles(Len(ListedFiles)) :
          /\ world' = [world EXCEPT !.shuffle = permutation]
          /\ fileGenerator' = NewGenerator(WalkOrder[1], MaxFileCalls,
                                           FileTemplate(unique), world')
    /\ UNCHANGED returned
    /\ UNCHANGED <<mainVars, joinVars, recordVars, kindVars, trackerVars>>

\* one record of the template: Generator.generate calls the leaf's generate()
FileCall ==
    /\ fileGenerator # Undefined
    /\ Len(returned) < MaxFileCalls
    /\ \E r \in Draws :
          \E g \in {GeneratorGenerate(fileGenerator, EmptyMap, world, Rnd(<<r>>))} :
              /\ fileGenerator' = g.generator
              /\ returned' = Append(returned, Get(g.output, FileLeaf))
    /\ UNCHANGED world
    /\ UNCHANGED <<mainVars, joinVars, recordVars, kindVars, trackerVars>>

FileNext ==
    \/ FileConstruct
    \/ FileCall

FileSpec == FileInit /\ [][FileNext]_vars

(***************************************************************************)
(* Calls of randomBetween, and a JoinValueGenerator over an enum element:  *)
(* its constructor and its generate() calls.                               *)
(***************************************************************************)
RangeOf(min, max) == Obj(<<KV(<<"min">>, Num(min)), KV(<<"max">>, Num(max))>>)
Comma == Str(<<",">>)

JoinOptions(count, separator, prefix) ==
    Obj(<<KV(<<"generator">>, Str(<<"join">>)),
          KV(<<"element">>, EnumSpec),
          KV(<<"count">>, count),
          KV(<<"separator">>, separator),
          KV(<<"prefix">>, prefix)>>)

JoinInit ==
    /\ MainIdle
    /\ FileIdle
    /\ JoinIdle
    /\ RecordIdle
    /\ KindIdle
    /\ TrackerIdle

\* randomBetween({min, max})
RandomBetweenCall ==
    /\ \E min \in 0..MaxRange, max \in 0..MaxRange, r \in Draws :
          /\ range' = RangeOf(min, max)
          /\ drawn' = Num(randomBetween(range', r))
    /\ UNCHANGED <<joinGenerator, joined>>
    /\ UNCHANGED <<mainVars, fileVars, recordVars, kindVars, trackerVars>>

\* createValueGenerator("join", options, valueTrackers)
JoinConstruct ==
    /\ joinGenerator = Undefined
    /\ \E count \in {Undefined} \cup
                    {RangeOf(min, max) : min \in 0..MaxRange, max \in 0..MaxRange},
          separator \in {Undefined, Comma},
          prefix \in {Undefined, Str(<<"<">>), EnumSpec} :
          joinGenerator' = createValueGenerator(Str(<<"join">>),
                                                JoinOptions(count, separator, prefix),
                                                NoFiles)
    /\ UNCHANGED <<range, drawn, joined>>
    /\ UNCHANGED <<mainVars, fileVars, recordVars, kindVars, trackerVars>>

\* JoinValueGenerator.generate(output)
JoinCall ==
    /\ joinGenerator # Undefined
    /\ \E seq \in [1..2 -> Draws] :
          \E g \in {generate(joinGenerator, Obj(<< >>), EmptyMap, NoFiles, Rnd(seq))} :
              /\ joinGenerator' = g.inst
              /\ joined' = g.value
    /\ UNCHANGED <<range, drawn>>
    /\ UNCHANGED <<mainVars, fileVars, recordVars, kindVars, trackerVars>>

JoinNext ==
    \/ RandomBetweenCall
    \/ JoinConstruct
    \/ JoinCall

JoinSpec == JoinInit /\ [][JoinNext]_vars

(***************************************************************************)
(* One template file: its document, the Generator main() constructs from   *)
(* it and the records its generate() calls return.  The template is called *)
(* WalkOrder[1]; other templates may have registered paths of it.          *)
(***************************************************************************)
\* a key of a spec object that is present only when it has a value
Opt(key, value) == IF value = Undefined THEN << >> ELSE <<KV(<<key>>, value)>>

JoinOf(element, count, separator, prefix, suffix) ==
    Obj(<<KV(<<"generator">>, Str(<<"join">>)), KV(<<"element">>, element)>>
        \o Opt("count", count) \o Opt("separator", separator)
        \o Opt("prefix", prefix) \o Opt("suffix", suffix))

CopyOf(from, prefix, suffix) ==
    Obj(<<KV(<<"generator">>, Str(<<"Copy">>)), KV(<<"from">>, Str(from))>>
        \o Opt("prefix", prefix) \o Opt("suffix", suffix))

\* an enum spec with one option
EnumOf(option) ==
    Obj(<<KV(<<"generator">>, Str(<<"ENUM">>)), KV(<<"options">>, Arr(<<option>>))>>)

OtherRef == RefSpec("ref", "other", WalkOrder[2], "x")

\* documents of literals only
Literals ==
    {Num(7), Str(<<"s">>), Null, Bool(FALSE), Arr(<<Num(1), Num(2)>>), Obj(<< >>)}
LiteralDocuments ==
    {Obj(<<KV(<<"a">>, n), KV(<<"y">>, v)>>) :
        n \in Literals
              \cup {Obj(<<KV(<<k>>, w)>>) : k \in {"x", "0"}, w \in Literals}
              \cup {Obj(<<KV(<<"x">>, Obj(<<KV(<<"y">>, Num(7))>>)),
                          KV(<<"z">>, Null)>>)},
        v \in {Num(7), Str(<<"s">>)}}

\* documents with a node that has a generator key
GeneratorTags ==
    {Str(<<"enum">>), Str(<<"Enum">>), Str(<<"nothing">>), EmptyString, Num(0),
     Num(1), Null, Bool(TRUE), Bool(FALSE)}
NodeOf(tag) ==
    Obj(<<KV(<<"generator">>, tag),
          KV(<<"options">>, Arr(<<Str(<<"v1">>), Str(<<"v2">>)>>)),
          KV(<<"nested">>, Obj(<<KV(<<"x">>, Num(7))>>))>>)
NodeDocuments ==
    {Obj(<<KV(<<"a">>, NodeOf(tag))>>) : tag \in GeneratorTags}
    \cup {Obj(<<KV(<<"a">>, Obj(<<KV(<<"b">>, NodeOf(tag))>>)), KV(<<"y">>, Num(7))>>) :
             tag \in GeneratorTags}

\* documents with a copy leaf after the leaf it copies
CopyDocuments ==
    {Obj(<<KV(<<"a">>, v), KV(<<"b">>, CopyOf(<<"a">>, prefix, suffix))>>) :
        v \in {Num(7), Str(<<"s">>), Null, EnumSpec},
        prefix \in {Undefined, Str(<<"<">>), EmptyString, EnumOf(Str(<<"p">>)),
                    EnumOf(Num(1)), OtherRef},
        suffix \in {Undefined, Str(<<">">>)}}
    \cup {Obj(<<KV(<<"c">>, Obj(<<KV(<<"x">>, v)>>)),
                KV(<<"b">>, CopyOf(<<"c", ".", "x">>, Undefined, Undefined))>>) :
             v \in {Num(7), Str(<<"s">>), Null, EnumSpec}}

\* a document whose leaves other templates may refer to
TrackedDocument ==
    Obj(<<KV(<<"x">>, EnumSpec),
          KV(<<"a">>, Obj(<<KV(<<"y">>, EnumSpec)>>)),
          KV(<<"z">>, Literal)>>)
TrackedPaths == {Str(<<"x">>), Str(<<"a", ".", "y">>), Str(<<"w">>)}

\* documents with a join leaf over a unique file element
JoinFileDocuments ==
    {Obj(<<KV(<<"f">>, JoinOf(FileOptions(Bool(TRUE)), count, Comma,
                              Undefined, Undefined))>>) :
        count \in {Undefined, RangeOf(1, 1), RangeOf(2, 2), RangeOf(0, 2)}}

\* documents with a reference spec as a leaf or inside a join or copy leaf
ReferenceDocuments ==
    {Obj(<<KV(<<"r">>, OtherRef)>>),
     Obj(<<KV(<<"j">>, JoinOf(OtherRef, RangeOf(1, 1), Comma, Undefined, Undefined))>>),
     Obj(<<KV(<<"j">>, JoinOf(EnumSpec, RangeOf(1, 1), Comma, OtherRef, Undefined))>>),
     Obj(<<KV(<<"j">>, JoinOf(EnumSpec, RangeOf(1, 1), Comma, Undefined, OtherRef))>>),
     Obj(<<KV(<<"r">>, OtherRef),
           KV(<<"j">>, JoinOf(RefSpec("ref", "other", WalkOrder[3], "x"),
                              RangeOf(1, 1), Comma, Undefined, Undefined))>>)}

Documents ==
    LiteralDocuments \cup NodeDocuments \cup CopyDocuments \cup {TrackedDocument}
        \cup JoinFileDocuments \cup ReferenceDocuments

RecordInit ==
    /\ MainIdle
    /\ JoinIdle
    /\ KindIdle
    /\ TrackerIdle
    /\ fileGenerator = Undefined
    /\ returned = << >>
    /\ document \in Documents
    /\ world \in IF document \in JoinFileDocuments
                 THEN {Listing(n, "distinct", FALSE) : n \in 0..NumFiles}
                 ELSE {NoFiles}
    /\ recordGenerator = Undefined
    /\ recordTrackers = EmptyMap
    /\ records = << >>

\* the constructor throws when createValueGenerator throws for a leaf
ConstructorThrows(generator) ==
    \E key \in DOMAIN generator.valueGenerators :
        generator.valueGenerators[key] = TypeError

\* the valueTrackers after templates that refer to paths of name were loaded
RegisteredBy(name, paths) ==
    IF paths = {} THEN EmptyMap
    ELSE MapSet(EmptyMap, name, [p \in paths |-> << >>])

\* main() constructs the Generator of the template and registers what it
\* depends on
RecordConstruct ==
    /\ recordGenerator = Undefined
    /\ \E permutation \in Shuffles(Len(ListedFiles)),
          paths \in IF document = TrackedDocument THEN SUBSET TrackedPaths ELSE {{}} :
          /\ world' = [world EXCEPT !.shuffle = permutation]
          /\ LET generator == NewGenerator(WalkOrder[1], MaxRecords, document, world')
             IN  IF ConstructorThrows(generator)
                 THEN /\ recordGenerator' = TypeError
                      /\ recordTrackers' = RegisteredBy(WalkOrder[1], paths)
                 ELSE /\ recordGenerator' = generator
                      /\ recordTrackers' =
                             TrackDependencies(RegisteredBy(WalkOrder[1], paths),
                                               generator.dependencies)
    /\ UNCHANGED <<document, records, fileGenerator, returned>>
    /\ UNCHANGED <<mainVars, joinVars, kindVars, trackerVars>>

\* one pass of main()'s inner loop: generator.generate(); no call follows one
\* that threw
RecordGenerate ==
    /\ recordGenerator \notin {Undefined, TypeError}
    /\ Len(records) < MaxRecords
    /\ \A k \in 1..Len(records) : records[k] # TypeError
    /\ \E seq \in [1..2 -> Draws] :
          \E g \in {GeneratorGenerate(recordGenerator, recordTrackers, world,
                                      Rnd(seq))} :
              /\ recordGenerator' = g.generator
              /\ recordTrackers' = g.valueTrackers
              /\ records' = Append(records, g.output)
    /\ UNCHANGED <<document, fileVars>>
    /\ UNCHANGED <<mainVars, joinVars, kindVars, trackerVars>>

RecordNext ==
    \/ RecordConstruct
    \/ RecordGenerate

RecordSpec == RecordInit /\ [][RecordNext]_vars

(***************************************************************************)
(* createValueGenerator on one leaf of a flat template, and generate() on  *)
(* what it returns.                                                        *)
(***************************************************************************)
\* the names of the switch of createValueGenerator in some letter cases, a
\* name of no kind, and tags that are no strings
KindTags ==
    {Str(<<t>>) : t \in {"name", "Name", "id", "Id", "ID", "enum", "Enum", "ENUM",
                         "eNuM", "file", "File", "FILE", "reference", "Reference",
                         "REFERENCE", "ref", "Ref", "REF", "join", "Join", "JOIN",
                         "copy", "Copy", "COPY", "csv", "CSV", "javascript",
                         "JavaScript", "nothing", "enums"}}
        \cup {EmptyString, Num(0), Num(1), Bool(TRUE), Bool(FALSE), Null,
              Arr(<<Str(<<"enum">>)>>), Obj(<<KV(<<"kind">>, Str(<<"enum">>))>>)}

\* what a template may hold at a key
LeafCandidates ==
    {Obj(<<KV(<<"generator">>, tag)>> \o Opt("options", options)) :
        tag \in KindTags, options \in {Undefined, Arr(<<Str(<<"v1">>), Str(<<"v2">>)>>)}}
        \cup Literals

\* flatten makes the value at a key a leaf of the flat template
IsLeaf(value) ==
    flatten(Obj(<<KV(<<"a">>, value)>>)) = Obj(<<KV(<<"a">>, value)>>)

LeafSpecs == {value \in LeafCandidates : IsLeaf(value)}

KindInit ==
    /\ MainIdle
    /\ FileIdle
    /\ JoinIdle
    /\ RecordIdle
    /\ TrackerIdle
    /\ leaf \in LeafSpecs
    /\ created = Undefined
    /\ yielded = << >>

\* the constructor's createValueGenerator(options?.generator, options,
\* valueTrackers) for the leaf
KindCreate ==
    /\ created = Undefined
    /\ created' = createValueGenerator(Get(leaf, <<"generator">>), leaf, NoFiles)
    /\ UNCHANGED <<leaf, yielded>>
    /\ UNCHANGED <<mainVars, fileVars, joinVars, recordVars, trackerVars>>

\* generate() on a DefaultValueGenerator
KindCall ==
    /\ created \notin {Undefined, TypeError}
    /\ created.kind = "default"
    /\ Len(yielded) < MaxKindCalls
    /\ \E seq \in [1..2 -> Draws] :
          \E g \in {generate(created, Obj(<< >>), EmptyMap, NoFiles, Rnd(seq))} :
              /\ created' = g.inst
              /\ yielded' = Append(yielded, g.value)
    /\ UNCHANGED leaf
    /\ UNCHANGED <<mainVars, fileVars, joinVars, recordVars, trackerVars>>

KindNext ==
    \/ KindCreate
    \/ KindCall

KindSpec == KindInit /\ [][KindNext]_vars

(***************************************************************************)
(* One ValueTracker and the track and add calls made on it.                *)
(***************************************************************************)
TrackerPaths == {Str(<<"x">>), Str(<<"a", ".", "y">>)}
TrackerValues == {Num(1), Num(2)}

TrackerInit ==
    /\ MainIdle
    /\ FileIdle
    /\ JoinIdle
    /\ RecordIdle
    /\ KindIdle
    /\ tracker = NewValueTracker
    /\ history = << >>

\* valueTracker.track(property)
TrackerTrack ==
    /\ Len(history) < MaxTrackerCalls
    /\ \E property \in TrackerPaths :
          /\ tracker' = track(tracker, property)
          /\ history' = Append(history, [call |-> "track", property |-> property,
                                         value |-> Undefined])
    /\ UNCHANGED <<mainVars, fileVars, joinVars, recordVars, kindVars>>

\* valueTracker.add(property, value)
TrackerAdd ==
    /\ Len(history) < MaxTrackerCalls
    /\ \E property \in TrackerPaths, value \in TrackerValues :
          /\ tracker' = add(tracker, property, value)
          /\ history' = Append(history, [call |-> "add", property |-> property,
                                         value |-> value])
    /\ UNCHANGED <<mainVars, fileVars, joinVars, recordVars, kindVars>>

TrackerNext ==
    \/ TrackerTrack
    \/ TrackerAdd

TrackerSpec == TrackerInit /\ [][TrackerNext]_vars

(***************************************************************************)
(* What the properties below speak of.                                     *)
(***************************************************************************)
Planned == pc \in {"generate", "done"}
SortedNames == [i \in 1..Len(sortedGenerators) |-> sortedGenerators[i].name]
DeclaredSeq == [i \in 1..Len(declared) |-> declared[i].name]
Range(seq) == {seq[i] : i \in 1..Len(seq)}
Occurrences(seq, x) == Cardinality({i \in 1..Len(seq) : seq[i] = x})
Position(seq, x) == CHOOSE i \in 1..Len(seq) : seq[i] = x
DeclaredGenerator(n) == declared[Position(DeclaredSeq, n)]

\* the producer names that are keys of the dependencies of the template n
DirectDependencies(n) ==
    IF n \in DeclaredNames THEN DOMAIN DeclaredGenerator(n).dependencies ELSE {}

RECURSIVE Closure(_)
Closure(S) ==
    LET T == S \cup UNION {DirectDependencies(n) : n \in S}
    IN  IF T = S THEN S ELSE Closure(T)

TransitiveDependencies(n) == Closure(DirectDependencies(n))

Acyclic == \A n \in DeclaredNames : n \notin TransitiveDependencies(n)
Resolved == \A n \in DeclaredNames : DirectDependencies(n) \subseteq DeclaredNames

\* the keys of the leaves of a generator that are reference/ref specs
ReferenceLeaves(generator) ==
    {generator.flatTemplate.entries[i].k :
        i \in {j \in 1..Len(generator.flatTemplate.entries) :
                  IsReference(generator.flatTemplate.entries[j].v)}}
LeafPaths(generator) ==
    {Str(generator.flatTemplate.entries[i].k) :
        i \in 1..Len(generator.flatTemplate.entries)}
LeafProducer(generator, key) == ReferenceProducer(Get(generator.flatTemplate, key))
LeafProperty(generator, key) == Get(Get(generator.flatTemplate, key), <<"property">>)
Finished(n) == n \in DeclaredNames /\ calls[n] = DeclaredGenerator(n).iterations

(***************************************************************************)
(* C1.  When the dependency relation of the declared generators is acyclic *)
(* and every dependency key is the name of a declared generator, every     *)
(* generator stands in executionOrder's result after every generator whose *)
(* name is a key of its dependencies, whatever the declaration order.      *)
(***************************************************************************)
C1_OrderRespectsDependencies ==
    (Planned /\ Acyclic /\ Resolved) =>
        \A i \in 1..Len(sortedGenerators) :
            \A d \in DOMAIN sortedGenerators[i].dependencies :
                \E j \in 1..(i - 1) : SortedNames[j] = d

\* declared [A, B, C] with A on B and B on C comes out as [C, B, A]
C1_Witness ==
    /\ Planned
    /\ DeclaredSeq = WalkOrder
    /\ DirectDependencies(WalkOrder[1]) = {WalkOrder[2]}
    /\ DirectDependencies(WalkOrder[2]) = {WalkOrder[3]}
    /\ DirectDependencies(WalkOrder[3]) = {}
    /\ SortedNames = <<WalkOrder[3], WalkOrder[2], WalkOrder[1]>>

(***************************************************************************)
(* C2, as claimed.  In every run, once a template has had a generate()     *)
(* call, every template it depends on, directly or transitively, has had   *)
(* all its iterations generate() calls.                                    *)
(***************************************************************************)
C2_AfterDependenciesInEveryRun ==
    \A t \in DeclaredNames :
        \A d \in (TransitiveDependencies(t) \cap DeclaredNames) \ {t} :
            calls[t] > 0 => Finished(d)

(***************************************************************************)
(* C2, amended.  The same of every template executionOrder does not warn   *)
(* about: once it has had a generate() call, every name it depends on,     *)
(* directly or transitively, is a template that has had all its calls.     *)
(***************************************************************************)
C2_AfterDependenciesUnlessWarned ==
    \A t \in DeclaredNames \ Range(warnings) :
        \A d \in TransitiveDependencies(t) :
            calls[t] > 0 => Finished(d)

\* A depends on B only through C, and A is generating
C2_Witness ==
    /\ calls[WalkOrder[1]] > 0
    /\ warnings = << >>
    /\ DirectDependencies(WalkOrder[1]) = {WalkOrder[3]}
    /\ DirectDependencies(WalkOrder[3]) = {WalkOrder[2]}
    /\ DeclaredGenerator(WalkOrder[2]).iterations = MaxIter

(***************************************************************************)
(* C3.  When the last generate() call was a consumer's and one of its      *)
(* leaves is a reference to (P, x), where P is another template that has   *)
(* had all its generate() calls, x is a leaf path of P and P's tracker     *)
(* tracks x, the value the leaf got is an element of the list the tracker  *)
(* holds for (P, x).                                                       *)
(***************************************************************************)
C3_ReferenceReturnsTrackedValue ==
    \A t \in DeclaredNames :
        \A key \in ReferenceLeaves(DeclaredGenerator(t)) :
            LET P == LeafProducer(DeclaredGenerator(t), key)
                x == LeafProperty(DeclaredGenerator(t), key)
            IN  (/\ last.name = t
                 /\ P # t
                 /\ Finished(P)
                 /\ x \in LeafPaths(DeclaredGenerator(P))
                 /\ HasValues(valueTrackers, P, x))
                => Get(last.output, key) \in Range(valueTrackers[P][x])

\* B's leaf y, a reference to (A, x), got the second of two different values
C3_Witness ==
    /\ last.name = WalkOrder[2]
    /\ Finished(WalkOrder[1])
    /\ <<"y">> \in ReferenceLeaves(DeclaredGenerator(WalkOrder[2]))
    /\ LeafProducer(DeclaredGenerator(WalkOrder[2]), <<"y">>) = WalkOrder[1]
    /\ LeafProperty(DeclaredGenerator(WalkOrder[2]), <<"y">>) = Str(<<"x">>)
    /\ HasValues(valueTrackers, WalkOrder[1], Str(<<"x">>))
    /\ valueTrackers[WalkOrder[1]][Str(<<"x">>)] = <<Str(<<"v1">>), Str(<<"v2">>)>>
    /\ Get(last.output, <<"y">>) = Str(<<"v2">>)

(***************************************************************************)
(* C4.  For every reference/ref leaf of every constructed Generator,       *)
(* naming producer P and path x, the Generator's dependencies hold the     *)
(* edge (P, x) and P's tracker tracks x, from the construction on (so      *)
(* before any record is generated), also when several leaves of one        *)
(* template name the same producer with different paths.                   *)
(***************************************************************************)
C4_EveryReferenceLeafIsTracked ==
    \A t \in DeclaredNames :
        \A key \in ReferenceLeaves(DeclaredGenerator(t)) :
            LET P == LeafProducer(DeclaredGenerator(t), key)
                x == LeafProperty(DeclaredGenerator(t), key)
            IN  /\ MapHas(DeclaredGenerator(t).dependencies, P)
                /\ DeclaredGenerator(t).dependencies[P] = x
                /\ HasValues(valueTrackers, P, x)

(***************************************************************************)
(* C5.  After planning, a template with a reference leaf whose producer    *)
(* name no template has stands exactly once in the execution order, is     *)
(* warned about exactly once (and no template more than once), has got     *)
(* all its generate() calls when the run is done, and in each of its       *)
(* records every such leaf is null or undefined.                           *)
(***************************************************************************)
C5_UnresolvedStillGenerated ==
    Planned =>
        /\ \A n \in DeclaredNames : Occurrences(warnings, n) <= 1
        /\ \A t \in DeclaredNames :
               \A key \in ReferenceLeaves(DeclaredGenerator(t)) :
                   LeafProducer(DeclaredGenerator(t), key) \notin DeclaredNames =>
                       /\ Occurrences(SortedNames, t) = 1
                       /\ Occurrences(warnings, t) = 1
                       /\ pc = "done" => Finished(t)
                       /\ last.name = t =>
                              Get(last.output, key) \in {Null, Undefined}

\* the run of A and B is done, B's last record has an undefined leaf y that
\* refers to C, which no template is called; A was not warned about
C5_Witness ==
    /\ pc = "done"
    /\ DeclaredSeq = <<WalkOrder[1], WalkOrder[2]>>
    /\ last.name = WalkOrder[2]
    /\ <<"y">> \in ReferenceLeaves(DeclaredGenerator(WalkOrder[2]))
    /\ LeafProducer(DeclaredGenerator(WalkOrder[2]), <<"y">>) = WalkOrder[3]
    /\ Get(last.output, <<"y">>) = Undefined
    /\ warnings = <<WalkOrder[2]>>
    /\ calls[WalkOrder[2]] = MaxIter

(***************************************************************************)
(* C6.  executionOrder's result holds every declared generator exactly     *)
(* once.  If it warned, the generators warned about are the end of the     *)
(* result, in their declaration order, and none of them passed the scan's  *)
(* test against the generators before them; if it did not warn, every      *)
(* generator passed the test against the generators before it.             *)
(***************************************************************************)
C6_EveryGeneratorOnce ==
    Planned =>
        LET n == Len(sortedGenerators)
            k == Len(warnings)
            placed == SubSeq(sortedGenerators, 1, n - k)
            InWarnings(x) == x \in Range(warnings)
        IN  /\ n = Len(declared)
            /\ \A t \in DeclaredNames : Occurrences(SortedNames, t) = 1
            /\ k <= n
            /\ SubSeq(SortedNames, n - k + 1, n) = warnings
            /\ warnings = SelectSeq(DeclaredSeq, InWarnings)
            /\ \A j \in (n - k + 1)..n : ~Placeable(sortedGenerators[j], placed)
            /\ \A j \in 1..(n - k) :
                   Placeable(sortedGenerators[j], SubSeq(sortedGenerators, 1, j - 1))

\* C was placed by the scan, then A and B were appended in that order
C6_Witness ==
    /\ Planned
    /\ SortedNames = <<WalkOrder[3], WalkOrder[1], WalkOrder[2]>>
    /\ warnings = <<WalkOrder[1], WalkOrder[2]>>

\* the generate() calls still to come from the generators seq[from..]
RECURSIVE IterationsFrom(_, _)
IterationsFrom(seq, from) ==
    IF from > Len(seq) THEN 0
    ELSE seq[from].iterations + IterationsFrom(seq, from + 1)

\* a bound on the number of steps main() can still take
StepsLeft ==
    CASE pc = "done" -> 0
      [] pc = "generate" ->
             IterationsFrom(sortedGenerators, position) - iteration
      [] pc = "plan" ->
             IterationsFrom(declared, 1) + Len(generators) + 1
      [] pc = "load" ->
             (Len(WalkOrder) - Len(declared)) * (MaxIter + 2)
                 + IterationsFrom(declared, 1) + Len(declared) + 2

(***************************************************************************)
(* C7.  Every run comes to its end with every declared template having had *)
(* exactly its iterations generate() calls: every step of main() lowers a  *)
(* natural number (so the planner's loop and the run take finitely many    *)
(* steps, cyclic and unresolved dependencies included), a run that is not  *)
(* done can always take a step of planning or has a generate() call to     *)
(* make, no template ever has more than its iterations calls, and when the *)
(* run is done every template has had exactly that many.                   *)
(***************************************************************************)
C7_RunCompletes ==
    /\ [][StepsLeft' < StepsLeft]_vars
    /\ [](StepsLeft \in Nat)
    /\ [](pc # "done" =>
             \/ InnerLoopRuns
             \/ ENABLED (\/ ExecutionOrderCall
                         \/ ExecutionOrderPlace
                         \/ ExecutionOrderFallback
                         \/ ExecutionOrderReturn))
    /\ [](\A t \in DeclaredNames : calls[t] <= DeclaredGenerator(t).iterations)
    /\ [](pc = "done" => \A t \in DeclaredNames : Finished(t))

\* a run of three templates, two of them warned about, is done
C7_Witness ==
    /\ pc = "done"
    /\ Len(declared) = 3
    /\ Len(warnings) = 2
    /\ \A t \in DeclaredNames : calls[t] = MaxIter

\* a Generator of the file template was constructed with a truthy unique
UniqueFileGenerator ==
    /\ fileGenerator # Undefined
    /\ Truthy(Get(Get(fileGenerator.flatTemplate, FileLeaf), <<"unique">>))

(***************************************************************************)
(* C8.  A file generator with a truthy unique over a directory of n files  *)
(* returns, over its first n generate() calls, the texts of the n files,   *)
(* each file once, in some order, and null from every later call; the      *)
(* names not yet returned are the instance's own filenames, which shrink   *)
(* by one with each record of the template until none is left.             *)
(***************************************************************************)
C8_UniqueFilesOnceThenEmpty ==
    UniqueFileGenerator =>
        LET n == Len(ListedFiles)
        IN  /\ \E p \in Shuffles(n) :
                   \A k \in 1..Len(returned) :
                       returned[k] = IF k <= n THEN world.files[ListedFiles[p[k]]]
                                     ELSE Null
            /\ Len(fileGenerator.valueGenerators[FileLeaf].filenames)
                   = IF Len(returned) < n THEN n - Len(returned) ELSE 0

\* NumFiles files of different texts came back in another order than the
\* directory lists them, each once, and the calls after them returned null
C8_Witness ==
    /\ UniqueFileGenerator
    /\ Len(ListedFiles) = NumFiles
    /\ Len(returned) = MaxFileCalls
    /\ {returned[k] : k \in 1..NumFiles}
           = {FileText("distinct", i) : i \in 1..NumFiles}
    /\ returned[1] = FileText("distinct", 2)
    /\ \A k \in (NumFiles + 1)..MaxFileCalls : returned[k] = Null

(***************************************************************************)
(* C9, as claimed.  For every range {min, max} with min < max,             *)
(* randomBetween returns an integer n with min <= n < max.                 *)
(***************************************************************************)
C9_RandomBetweenWithinRange ==
    range # Undefined =>
        LET min == Get(range, <<"min">>).num
            max == Get(range, <<"max">>).num
        IN  min < max => (min <= drawn.num /\ drawn.num < max)

\* how many of the tokens of a string are the separator ","
Separators(string) ==
    Cardinality({i \in 1..Len(string.str) : string.str[i] = Comma.str[1]})

(***************************************************************************)
(* C10, as claimed.  A join generator with count {min: 2, max: 2} and      *)
(* separator "," returns from every call exactly two elements joined by    *)
(* exactly one separator, after its prefix if it has one.                  *)
(***************************************************************************)
C10_FixedCountJoin ==
    (/\ joinGenerator # Undefined
     /\ joined # Undefined
     /\ Get(joinGenerator.options, <<"count">>) = RangeOf(2, 2)
     /\ Get(joinGenerator.options, <<"separator">>) = Comma)
    => LET prefix == IF Truthy(Get(joinGenerator.options, <<"prefix">>))
                     THEN 1 ELSE 0
       IN  /\ Separators(joined) = 1
           /\ Len(joined.str) - prefix - Separators(joined) = 2

\* the keys of the leaves of a generator whose instance is of a kind
LeavesOfKind(generator, kind) ==
    {key \in DOMAIN generator.valueGenerators :
        generator.valueGenerators[key].kind = kind}

(***************************************************************************)
(* C12.  Every value an enum generator with a non-empty option list S      *)
(* returns is a member of S: in the record of the last generate() call     *)
(* every enum leaf holds one of the options of its spec.                   *)
(***************************************************************************)
C12_EnumReturnsAnOption ==
    \A t \in DeclaredNames :
        last.name = t =>
            \A key \in LeavesOfKind(DeclaredGenerator(t), "enum") :
                LET S == Get(Get(DeclaredGenerator(t).flatTemplate, key),
                             <<"options">>).items
                IN  Len(S) > 0 => Get(last.output, key) \in Range(S)

\* both options of an enum leaf were returned in the records of one template
C12_Witness ==
    /\ last.name = WalkOrder[1]
    /\ <<"x">> \in LeavesOfKind(DeclaredGenerator(WalkOrder[1]), "enum")
    /\ calls[WalkOrder[1]] = MaxIter
    /\ Get(last.output, <<"x">>) = Str(<<"v2">>)

\* main() has a Generator of the template
Constructed == recordGenerator \notin {Undefined, TypeError}

\* the text a prefix or suffix stands for: none when absent, itself when a
\* string, the string form of what its generator yields otherwise (nothing
\* for a reference without values)
AffixText(affix) ==
    CASE affix = Undefined -> << >>
      [] affix.type = "string" -> affix.str
      [] IsReference(affix) -> << >>
      [] OTHER -> ToStr(Get(affix, <<"options">>).items[1])

(***************************************************************************)
(* C11, as claimed.  In every record of a template, a copy leaf whose from *)
(* names an earlier leaf holds prefix + the string form of the value at    *)
(* from in that record + suffix (so exactly that string form when prefix   *)
(* and suffix are empty).                                                  *)
(***************************************************************************)
C11_CopyReturnsPrefixValueSuffix ==
    Constructed =>
        \A k \in 1..Len(records) :
            \A key \in LeavesOfKind(recordGenerator, "copy") :
                LET options == recordGenerator.valueGenerators[key].options
                    value == get(records[k], Get(options, <<"from">>))
                IN  /\ records[k] # TypeError
                    /\ get(records[k], Str(key))
                           = Str(AffixText(Get(options, <<"prefix">>))
                                 \o ToStr(value)
                                 \o AffixText(Get(options, <<"suffix">>)))

\* the paths of the outermost nodes below the root of a document that have
\* a generator key (what lies inside such a node belongs to it)
RECURSIVE NodesWithGenerator(_, _)
NodesWithGenerator(object, prev) ==
    UNION {LET key == object.entries[i].k
               value == object.entries[i].v
               path == IF prev = << >> THEN key ELSE prev \o <<".">> \o key
           IN  IF HasKey(value, <<"generator">>) THEN {path}
               ELSE IF value.type = "object"
                    THEN NodesWithGenerator(value, path) ELSE {} :
           i \in 1..Len(object.entries)}

\* path is a proper prefix of key, ending before a "."
Below(key, path) ==
    /\ Len(key) > Len(path)
    /\ SubSeq(key, 1, Len(path) + 1) = path \o <<".">>

(***************************************************************************)
(* C13, as claimed.  Once the Generator's constructor has flattened the    *)
(* template, every node of the document that has a generator key, whatever *)
(* is stored under it, is one leaf of the flat template at the node's path *)
(* and the flat template has no leaf below that path.                      *)
(***************************************************************************)
C13_GeneratorNodeIsOneLeaf ==
    recordGenerator # Undefined =>
        LET flat == flatten(document)
        IN  \A path \in NodesWithGenerator(document, << >>) :
                /\ HasKey(flat, path)
                /\ Get(flat, path) = get(document, Str(path))
                /\ \A i \in 1..Len(flat.entries) : ~Below(flat.entries[i].k, path)

\* the dotted paths of the leaves of a document of literals, in the order
\* a walk of the document meets them
RECURSIVE DocumentLeafPaths(_, _, _)
DocumentLeafPaths(object, prev, i) ==
    IF i > Len(object.entries) THEN << >>
    ELSE LET key == object.entries[i].k
             value == object.entries[i].v
             path == IF prev = << >> THEN key ELSE prev \o <<".">> \o key
         IN  (IF value.type = "object" /\ Len(value.entries) > 0
              THEN DocumentLeafPaths(value, path, 1)
              ELSE <<path>>)
             \o DocumentLeafPaths(object, prev, i + 1)

(***************************************************************************)
(* C14, as claimed.  For a template of literals only, whose keys hold no   *)
(* ".", flatten yields the leaf paths in document order, and every record  *)
(* that Generator.generate builds by writing each leaf back at its dotted  *)
(* path has the same nested shape and values as the template.              *)
(* The records do not always match: a key that is an array index, as in    *)
(* {a: {"0": 7}}, is written back by set as an element of a new array, so  *)
(* the record is {a: [7]}.                                                 *)
(***************************************************************************)
C14_LiteralTemplateRoundTrips ==
    (document \in LiteralDocuments /\ recordGenerator # Undefined) =>
        /\ [i \in 1..Len(recordGenerator.flatTemplate.entries) |->
               recordGenerator.flatTemplate.entries[i].k]
             = DocumentLeafPaths(document, << >>, 1)
        /\ \A k \in 1..Len(records) : records[k] = document

\* the ValueTracker of the template of RecordSpec: the lists by path
OwnTracker(trackers) ==
    IF MapHas(trackers, WalkOrder[1]) THEN trackers[WalkOrder[1]] ELSE NewValueTracker

\* every generate() call so far returned a record
Generated ==
    /\ recordGenerator \notin {Undefined, TypeError}
    /\ \A k \in 1..Len(records) : records[k] # TypeError

\* list is the first Len(list) elements of longer
IsPrefix(list, longer) ==
    /\ Len(list) <= Len(longer)
    /\ SubSeq(longer, 1, Len(list)) = list

\* each registered leaf path has one value per record, the value the record has
ListsMirrorRecords ==
    Generated =>
        \A x \in DOMAIN OwnTracker(recordTrackers) :
            HasKey(recordGenerator.flatTemplate, x.str) =>
                /\ Len(OwnTracker(recordTrackers)[x]) = Len(records)
                /\ \A i \in 1..Len(records) :
                       OwnTracker(recordTrackers)[x][i] = get(records[i], x)

\* a step after construction keeps the entries and appends to the lists
ListsOnlyGrow ==
    (recordGenerator # Undefined) =>
        /\ DOMAIN recordTrackers' = DOMAIN recordTrackers
        /\ \A n \in DOMAIN recordTrackers :
               /\ DOMAIN recordTrackers'[n] = DOMAIN recordTrackers[n]
               /\ \A x \in DOMAIN recordTrackers[n] :
                      IsPrefix(recordTrackers[n][x], recordTrackers'[n][x])

(***************************************************************************)
(* C17.  After k generate() calls on a template, its tracker holds, for    *)
(* each path that was registered before generation and is a leaf path of   *)
(* the template, a list of length k whose i-th element is the value that   *)
(* the i-th record has at that path.  A generate() call only appends to    *)
(* the lists and creates no entry for a path that was not registered.      *)
(***************************************************************************)
C17_TrackerMirrorsRecords ==
    /\ [] ListsMirrorRecords
    /\ [][ListsOnlyGrow]_vars

\* three records of the tracked document, two of its three leaves registered
\* together with a path that is no leaf, and the two lists differ
C17_Witness ==
    /\ document = TrackedDocument
    /\ Len(records) = MaxRecords
    /\ Generated
    /\ DOMAIN OwnTracker(recordTrackers) = TrackedPaths
    /\ OwnTracker(recordTrackers)[Str(<<"x">>)][1]
         # OwnTracker(recordTrackers)[Str(<<"x">>)][2]
    /\ OwnTracker(recordTrackers)[Str(<<"w">>)] = << >>

\* the join leaf of the documents of JoinFileDocuments
JoinLeaf == <<"f">>

\* how often the text of the i-th file stands in a string
TextCount(string, i) ==
    Cardinality({j \in 1..(Len(string.str) - 1) :
                    <<string.str[j], string.str[j + 1]>> = FileText("distinct", i).str})

\* how many file texts the records 1..k hold
RECURSIVE TextsUpTo(_)
TextsUpTo(k) ==
    IF k = 0 THEN 0
    ELSE TextsUpTo(k - 1)
         + Cardinality({i \in 1..NumFiles :
                           TextCount(get(records[k], Str(JoinLeaf)), i) > 0})

(***************************************************************************)
(* C18.  A join leaf owns one element generator, which every generate()    *)
(* call of the leaf uses: with a unique file element over a directory of n *)
(* files, the elements of all the calls together hold the content of each  *)
(* file at most once, the element generator has as many file names left as *)
(* files have not been drawn, an element is empty only when all n files    *)
(* have been drawn, and once they have every further element is empty.     *)
(***************************************************************************)
C18_JoinDrawsEachFileOnce ==
    (document \in JoinFileDocuments /\ Generated) =>
        LET n == Len(ListedFiles)
            value(k) == get(records[k], Str(JoinLeaf))
            element == recordGenerator.valueGenerators[JoinLeaf].elementValueGenerator
        IN  /\ \A i \in 1..NumFiles :
                   /\ Cardinality({k \in 1..Len(records) : TextCount(value(k), i) > 0}) <= 1
                   /\ \A k \in 1..Len(records) : TextCount(value(k), i) <= 1
            /\ Len(element.filenames) = n - TextsUpTo(Len(records))
            /\ \A k \in 1..Len(records) :
                   /\ (Separators(value(k)) > 0
                         /\ TextsUpTo(k) - TextsUpTo(k - 1) < Separators(value(k)) + 1)
                        => TextsUpTo(k) = n
                   /\ TextsUpTo(k - 1) = n => TextsUpTo(k) = n

\* three calls on a directory of NumFiles files: the first draws one file, the
\* second the others and an empty element, the third nothing but empty ones
C18_Witness ==
    /\ document \in JoinFileDocuments
    /\ Generated
    /\ Len(ListedFiles) = NumFiles
    /\ Len(records) = MaxRecords
    /\ TextsUpTo(1) = 1
    /\ TextsUpTo(2) = NumFiles
    /\ Separators(get(records[2], Str(JoinLeaf))) >= NumFiles - 1
    /\ Separators(get(records[3], Str(JoinLeaf))) > 0

\* the reference specs that the join and copy leaves of a Generator hold as
\* element, prefix or suffix
NestedReferences(generator) ==
    {spec \in {Get(Get(generator.flatTemplate, key), <<part>>) :
                  key \in LeavesOfKind(generator, "join") \cup LeavesOfKind(generator, "copy"),
                  part \in {"element", "prefix", "suffix"}} :
        IsReference(spec)}

\* the producers that the reference leaves of a Generator name
LeafProducers(generator) ==
    {LeafProducer(generator, key) : key \in LeavesOfKind(generator, "reference")}

\* generators of the given names, as the planner has them in its sorted list
RECURSIVE SortedOf(_)
SortedOf(names) ==
    IF names = {} THEN << >>
    ELSE LET n == CHOOSE n \in names : TRUE
         IN  <<[name |-> n]>> \o SortedOf(names \ {n})

(***************************************************************************)
(* C19.  The dependencies of a template are the producers named by its     *)
(* leaves whose own kind is reference or ref, each with the property of    *)
(* such a leaf.  A reference that is the element of a join leaf, or the    *)
(* prefix or suffix of a join or copy leaf, adds no dependency: unless a   *)
(* reference leaf names the same producer, the template does not depend on *)
(* it, registers no path of it for tracking, and the planner's test places *)
(* the template as soon as the producers of its reference leaves are       *)
(* placed.                                                                 *)
(***************************************************************************)
C19_OnlyReferenceLeavesAreDependencies ==
    Constructed =>
        /\ DOMAIN recordGenerator.dependencies = LeafProducers(recordGenerator)
        /\ \A d \in DOMAIN recordGenerator.dependencies :
               \E key \in LeavesOfKind(recordGenerator, "reference") :
                   /\ LeafProducer(recordGenerator, key) = d
                   /\ LeafProperty(recordGenerator, key) = recordGenerator.dependencies[d]
        /\ \A spec \in NestedReferences(recordGenerator) :
               ReferenceProducer(spec) \notin LeafProducers(recordGenerator) =>
                   /\ ~MapHas(recordGenerator.dependencies, ReferenceProducer(spec))
                   /\ ~MapHas(recordTrackers, ReferenceProducer(spec))
        /\ Placeable(recordGenerator, SortedOf(LeafProducers(recordGenerator)))

\* a template with a reference leaf to one producer and a join leaf whose
\* element refers to another has generated a record
C19_Witness ==
    /\ Constructed
    /\ Len(records) > 0
    /\ LeafProducers(recordGenerator) = {WalkOrder[2]}
    /\ {ReferenceProducer(spec) : spec \in NestedReferences(recordGenerator)}
           = {WalkOrder[3]}
    /\ DOMAIN recordTrackers = {WalkOrder[2]}

\* the kind names of the switch of createValueGenerator
BuiltinNames ==
    {"name", "id", "enum", "file", "reference", "ref", "join", "copy", "csv",
     "javascript"}

\* the generator tag of the leaf is a builtin kind name in some letter case
HasBuiltinTag ==
    /\ Get(leaf, <<"generator">>).type = "string"
    /\ Len(Get(leaf, <<"generator">>).str) = 1
    /\ LowerToken(Get(leaf, <<"generator">>).str[1]) \in BuiltinNames

\* the class a builtin kind name stands for
ClassOf(name) == IF name = "ref" THEN "reference" ELSE name

(***************************************************************************)
(* C15, as claimed.  For every leaf whose generator tag is absent or is no *)
(* builtin kind name in any letter case, createValueGenerator does not     *)
(* fail, and the generator it returns yields the leaf's options unchanged  *)
(* on every call; a builtin kind name in any letter case selects that      *)
(* builtin kind.                                                           *)
(* createValueGenerator does fail for a tag that is no string and not      *)
(* null, such as {"generator": 1}: the tag has no toLowerCase method.      *)
(***************************************************************************)
C15_UnknownTagYieldsOptions ==
    created # Undefined =>
        IF HasBuiltinTag
        THEN /\ created # TypeError
             /\ created.kind = ClassOf(LowerToken(Get(leaf, <<"generator">>).str[1]))
        ELSE /\ created # TypeError
             /\ \A k \in 1..Len(yielded) : yielded[k] = leaf

\* the values of the add calls for a property, in call order
RECURSIVE AddedFrom(_, _)
AddedFrom(property, i) ==
    IF i > Len(history) THEN << >>
    ELSE (IF history[i].call = "add" /\ history[i].property = property
          THEN <<history[i].value>> ELSE << >>)
         \o AddedFrom(property, i + 1)

\* some track or add call named the property
Touched(property) == \E i \in 1..Len(history) : history[i].property = property

(***************************************************************************)
(* C16.  For a ValueTracker and every path p: get(p) is absent exactly     *)
(* when no track(p) and no add(p, _) call was made; otherwise it is the    *)
(* list of the values passed to add(p, _), in call order.  track(p) on a   *)
(* path that has a list changes nothing, and on any path it leaves the     *)
(* lists of the paths as they are.  tracks(p) is true exactly when get(p)  *)
(* is present.                                                             *)
(***************************************************************************)
C16_TrackerHoldsAddedValues ==
    \A p \in TrackerPaths :
        /\ (TrackerGet(tracker, p) = Undefined) <=> ~Touched(p)
        /\ Touched(p) => TrackerGet(tracker, p) = Arr(AddedFrom(p, 1))
        /\ tracks(tracker, p) <=> (TrackerGet(tracker, p) # Undefined)
        /\ track(track(tracker, p), p) = track(tracker, p)
        /\ tracks(tracker, p) => track(tracker, p) = tracker
        /\ \A q \in DOMAIN tracker : track(tracker, p)[q] = tracker[q]

\* one path was tracked before, between and after two adds, the other was
\* never named
C16_Witness ==
    /\ Len(history) = MaxTrackerCalls
    /\ history[1].call = "track"
    /\ history[3].call = "track"
    /\ TrackerGet(tracker, Str(<<"x">>)) = Arr(<<Num(2), Num(1)>>)
    /\ TrackerGet(tracker, Str(<<"a", ".", "y">>)) = Undefined

=============================================================================
